---------------------------- MODULE Spec2Model ----------------------------
(***************************************************************************)
(* Item Store: the Item model (app/models.py) over a Redis keyspace and    *)
(* the REST handlers of app/server.py that sit on top of it.               *)
(*                                                                         *)
(* The code is Python 2 (print statement in server.py, implicit relative   *)
(* imports in app/__init__.py), so a text value is either a byte string    *)
(* (type str) or a unicode string (type unicode); the two compare equal    *)
(* when their characters are equal, but isinstance(x, str) tells them      *)
(* apart.                                                                  *)
(*                                                                         *)
(* Five specifications share the state:                                    *)
(*   Spec      the Item class used directly, one call at a time;           *)
(*   SpecQuery the Item class with its find_by_name and find_by_price;     *)
(*   SpecHttp  the REST endpoints, one request at a time;                  *)
(*   SpecConc  REST requests of several workers interleaved between their  *)
(*             Redis commands (each Redis command is atomic);              *)
(*   SpecInit  Item.init_db, the choice of the backend at start-up.        *)
(***************************************************************************)
EXTENDS Integers, Sequences, FiniteSets, TLC

\* Largest value the id counter is driven to (creates are disabled beyond it).
MaxIndex == 2

VARIABLES
    redis,   \* Item.redis: the keyspace, a function from key strings to values
    last,    \* the call or request that ran last, with its inputs and outcome
    hist,    \* history of the run (not program state): ids handed out, ids sold
    pc,      \* SpecConc: per worker, the position inside its handler
    local,   \* SpecConc: per worker, the handler's local variables
    conn     \* Item.redis as a connection, with the environment init_db reads

vars == <<redis, last, hist, pc, local, conn>>

----------------------------------------------------------------------------
(* Python values.  Every value is [t |-> type name, s |-> payload] so that *)
(* values of different Python types can sit in one set.                    *)

PyNone == [t |-> "NoneType", s |-> <<>>]
PyStr(cs) == [t |-> "str", s |-> cs]
PyUnicode(cs) == [t |-> "unicode", s |-> cs]
PyBool(b) == [t |-> "bool", s |-> IF b THEN <<1>> ELSE <<0>>]
PyInt(n) == [t |-> "int", s |-> <<n>>]

PyTrue == PyBool(TRUE)
PyFalse == PyBool(FALSE)

\* Python truthiness: None, False, 0 and empty strings are false.
Truthy(v) ==
    CASE v.t = "NoneType" -> FALSE
      [] v.t \in {"bool", "int"} -> v.s[1] /= 0
      [] OTHER -> Len(v.s) > 0

\* isinstance(v, str): true of byte strings only, not of unicode strings.
IsInstanceStr(v) == v.t = "str"

\* isinstance(v, basestring): what cerberus' 'string' type accepts.
IsBaseString(v) == v.t \in {"str", "unicode"}

\* Python 2 ==: str and unicode compare by characters, bool and int by number.
PyEq(a, b) ==
    IF IsBaseString(a) /\ IsBaseString(b) THEN a.s = b.s
    ELSE IF a.t \in {"bool", "int"} /\ b.t \in {"bool", "int"} THEN a.s = b.s
    ELSE a = b

\* Characters are code points; 65..90 are 'A'..'Z', 97..122 are 'a'..'z'.
LowerChar(c) == IF c \in 65..90 THEN c + 32 ELSE c

\* value.lower(): keeps the type, lowers every character.
Lower(v) == [t |-> v.t, s |-> [i \in DOMAIN v.s |-> LowerChar(v.s[i])]]

----------------------------------------------------------------------------
(* Item objects, their dictionary form and the pickled form kept in Redis. *)

\* Item.__init__: an in-memory item.
Item(id, name, price, available) ==
    [id |-> id, name |-> name, price |-> price, available |-> available]

FieldOrder == <<"id", "name", "price", "available">>

\* Item.serialize: the dictionary of the four fields.
serialize(item) ==
    [k \in {"id", "name", "price", "available"} |->
        CASE k = "id" -> PyInt(item.id)
          [] k = "name" -> item.name
          [] k = "price" -> item.price
          [] OTHER -> item.available]

\* pickle.dumps of a dictionary: the (key, value) pairs laid out in a row.
pickle_dumps(d) ==
    LET ks == SelectSeq(FieldOrder, LAMBDA k : k \in DOMAIN d)
    IN  [i \in DOMAIN ks |-> <<ks[i], d[ks[i]]>>]

\* pickle.loads: the dictionary rebuilt from the row of pairs.
pickle_loads(b) ==
    [k \in {b[i][1] : i \in DOMAIN b} |->
        b[CHOOSE i \in DOMAIN b : b[i][1] = k][2]]

\* A schema that checks the keys and the type of name and price only.
validateNoBoolean(data) ==
    /\ DOMAIN data \subseteq {"id", "name", "price", "available"}
    /\ {"name", "price", "available"} \subseteq DOMAIN data
    /\ IsBaseString(data["name"])
    /\ IsBaseString(data["price"])

\* Item.schema checked by cerberus: no unknown key, name/price/available
\* required, name and price strings, available a boolean, id an integer.
validate(data) ==
    /\ DOMAIN data \subseteq {"id", "name", "price", "available"}
    /\ {"name", "price", "available"} \subseteq DOMAIN data
    /\ IsBaseString(data["name"])
    /\ IsBaseString(data["price"])
    /\ data["available"].t = "bool"
    /\ ("id" \in DOMAIN data => data["id"].t = "int")

\* Item(data['id']).deserialize(data): the item, or DataValidationError.
\* Returns [exc, item]; item is meaningful only when exc = "".
NoItem == Item(0, PyNone, PyNone, PyNone)

deserialize(id, data) ==
    IF validate(data)
    THEN [exc |-> "", item |-> Item(id, data["name"], data["price"], data["available"])]
    ELSE [exc |-> "DataValidationError", item |-> NoItem]

\* A request body once parsed: a JSON object (a dict) or anything else
\* (None, a list, a string), for which isinstance(data, dict) is false.
JsonDict(d) == [isdict |-> TRUE, d |-> d]

NotADict == [isdict |-> FALSE, d |-> [k \in {} |-> PyNone]]

\* item.deserialize(data) for data of any type, on an item with the id given.
deserialize_body(id, body) ==
    IF body.isdict THEN deserialize(id, body.d)
    ELSE [exc |-> "DataValidationError", item |-> NoItem]

----------------------------------------------------------------------------
(* Redis commands on a keyspace r.  Keys are strings: redis-py turns the   *)
(* integer id it is given into its decimal text.                           *)

Key(id) == ToString(id)

EmptyDb == [k \in {} |-> 0]

RedisExists(r, k) == k \in DOMAIN r

RedisGet(r, k) == r[k]

RedisSet(r, k, v) == [x \in DOMAIN r \cup {k} |-> IF x = k THEN v ELSE r[x]]

RedisDelete(r, k) == [x \in DOMAIN r \ {k} |-> r[x]]

RedisFlushAll(r) == EmptyDb

RedisKeys(r) == DOMAIN r

\* A counter that is read but not advanced.
RedisIncrValueStale(r, k) == IF k \in DOMAIN r THEN r[k] ELSE 1

\* INCR: a missing key counts as 0; the new value is stored and returned.
RedisIncrValue(r, k) == IF k \in DOMAIN r THEN r[k] + 1 ELSE 1

RedisIncr(r, k) == RedisSet(r, k, RedisIncrValue(r, k))

\* The counter as the code sees it (0 when the key is absent).
Index(r) == IF "index" \in DOMAIN r THEN r["index"] ELSE 0

\* The keys that hold records: every key except the counter.
RecordKeys(r) == {k \in RedisKeys(r) : k /= "index"}

----------------------------------------------------------------------------
(* The Item class: each operator is one method, as a function of the       *)
(* keyspace it runs against.                                               *)

\* Item.__next_index: INCR of the counter key; the id it returns.
next_index(r) == RedisIncrValue(r, "index")

\* A check made for new items only.
SaveRaisesNewOnly(item) == item.id = 0 /\ item.name = PyNone

\* Item.save, line 63: the only check made before writing.
SaveRaises(item) == item.name = PyNone

\* A save that takes a new id from the counter whatever id the item carries.
SaveIdAlwaysNew(r, item) == next_index(r)

\* Item.save, lines 65-66: the id the item carries after the call.
SaveId(r, item) == IF item.id = 0 THEN next_index(r) ELSE item.id

\* A save that advances the counter for a new item and writes no record.
SaveDbCounterOnly(r, item) == IF item.id = 0 THEN RedisIncr(r, "index") ELSE r

\* Item.save, lines 65-67: the keyspace after a save that does not raise.
SaveDb(r, item) ==
    LET r1 == IF item.id = 0 THEN RedisIncr(r, "index") ELSE r
        saved == [item EXCEPT !.id = SaveId(r, item)]
    IN  RedisSet(r1, Key(saved.id), pickle_dumps(serialize(saved)))

\* A delete that clears the keyspace.
DeleteDbAll(r, id) == RedisFlushAll(r)

\* Item.delete: DEL of the item's key.
DeleteDb(r, id) == RedisDelete(r, Key(id))

\* A remove_all that deletes the records and keeps the counter.
RemoveAllDbKeepIndex(r) == [k \in DOMAIN r \cap {"index"} |-> r[k]]

\* Item.remove_all: FLUSHALL, which drops the counter key too.
RemoveAllDb(r) == RedisFlushAll(r)

\* The item a stored value unpickles to: Item(data['id']).deserialize(data).
Load(r, k) ==
    LET data == pickle_loads(RedisGet(r, k))
    IN  deserialize(data["id"].s[1], data)

\* A find that answers an unknown id with a blank item instead of None.
findOrBlank(r, id) ==
    IF RedisExists(r, Key(id))
    THEN LET got == Load(r, Key(id))
         IN  [exc |-> got.exc, found |-> got.exc = "", item |-> got.item]
    ELSE [exc |-> "", found |-> TRUE, item |-> Item(id, PyNone, PyNone, PyTrue)]

\* Item.find: [exc, found, item]; found = FALSE is the None result.
find(r, id) ==
    IF RedisExists(r, Key(id))
    THEN LET got == Load(r, Key(id))
         IN  [exc |-> got.exc, found |-> got.exc = "", item |-> got.item]
    ELSE [exc |-> "", found |-> FALSE, item |-> NoItem]

\* The orders in which KEYS may list the keyspace (Redis promises none).
RECURSIVE Orders(_)
Orders(S) ==
    IF S = {} THEN {<<>>}
    ELSE UNION {{<<x>> \o o : o \in Orders(S \ {x})} : x \in S}

\* KEYS: every key, the record keys in any order.  The counter key is listed
\* first: the loops below skip it wherever it stands.
KeyOrders(r) ==
    {(IF "index" \in RedisKeys(r) THEN <<"index">> ELSE <<>>) \o o :
        o \in Orders(RedisKeys(r) \ {"index"})}

\* The loop of Item.all over the keys in the order given: [exc, items].
RECURSIVE AllLoop(_, _, _)
AllLoop(r, order, results) ==
    IF order = <<>> THEN [exc |-> "", items |-> results]
    ELSE IF Head(order) = "index" THEN AllLoop(r, Tail(order), results)
    ELSE LET got == Load(r, Head(order))
         IN  IF got.exc /= "" THEN [exc |-> got.exc, items |-> <<>>]
             ELSE AllLoop(r, Tail(order), Append(results, got.item))

all(r, order) == AllLoop(r, order, <<>>)

\* Item.__find_by, lines 141-144: the search value, lowered if it is a str.
SearchCriteria(value) == IF IsInstanceStr(value) THEN Lower(value) ELSE value

\* Item.__find_by, lines 150-153: the stored value, lowered if it is a str.
TestValue(v) == IF IsInstanceStr(v) THEN Lower(v) ELSE v

\* The loop of Item.__find_by over the keys in the order given.
RECURSIVE FindByLoop(_, _, _, _, _)
FindByLoop(r, order, attribute, value, results) ==
    IF order = <<>> THEN [exc |-> "", items |-> results]
    ELSE IF Head(order) = "index"
    THEN FindByLoop(r, Tail(order), attribute, value, results)
    ELSE LET data == pickle_loads(RedisGet(r, Head(order)))
             got == deserialize(data["id"].s[1], data)
         IN  IF ~PyEq(TestValue(data[attribute]), SearchCriteria(value))
             THEN FindByLoop(r, Tail(order), attribute, value, results)
             ELSE IF got.exc /= "" THEN [exc |-> got.exc, items |-> <<>>]
             ELSE FindByLoop(r, Tail(order), attribute, value,
                             Append(results, got.item))

find_by(r, order, attribute, value) == FindByLoop(r, order, attribute, value, <<>>)

----------------------------------------------------------------------------
(* State shared by the specifications.                                     *)

\* The record of the last call: its name, inputs and outcome.
\*   op, id, item   the method or endpoint, the id it was given or assigned,
\*                  the item it was given (Item calls) or answers with (HTTP)
\*   val            the value searched for
\*   exc            the exception raised, or the error message of the response
\*   found, items   what a finder returned
\*   status         the HTTP status of the response
\*   ctype, body    the request's Content-Type and parsed body
\*   prev           the item the handler's own Item.find returned
Call(op, item, id, val, exc, found, items, status) ==
    [op |-> op, item |-> item, id |-> id, val |-> val, exc |-> exc,
     found |-> found, items |-> items, status |-> status,
     ctype |-> "", body |-> NotADict, prev |-> NoItem]

NoCall == Call("", NoItem, 0, PyNone, "", FALSE, <<>>, 0)

Max(a, b) == IF a >= b THEN a ELSE b

\* History kept beside the program state, for stating the properties:
\*   ever   the largest id the counter ever handed out
\*   cur    the largest id handed out since the last remove_all
\*   saved  per id with a record, the item as it was in memory when saved
\*   sold   ids that were stored as unavailable by a request and have not
\*          been rewritten by a PUT /items/{id} since
NoHistory == [ever |-> 0, cur |-> 0, saved |-> [i \in {} |-> NoItem], sold |-> {}]

\* The history after a save of item that did not raise.
HistSave(h, r, item) ==
    LET id == SaveId(r, item)
        it == [item EXCEPT !.id = id]
    IN  [h EXCEPT
           !.ever = IF item.id = 0 THEN Max(@, id) ELSE @,
           !.cur = IF item.id = 0 THEN Max(@, id) ELSE @,
           !.saved = [x \in DOMAIN @ \cup {id} |-> IF x = id THEN it ELSE @[x]]]

HistDelete(h, id) ==
    [h EXCEPT !.saved = [x \in DOMAIN @ \ {id} |-> @[x]]]

HistRemoveAll(h) ==
    [h EXCEPT !.cur = 0, !.saved = [i \in {} |-> NoItem]]

\* The request workers of SpecConc.
Workers == {1, 2}

\* A worker's handler variables:
\*   op, id, item   the endpoint, the id of the URL or the id INCR returned,
\*                  the item being written or the item Item.find returned
\*   status         the status answered (0 while the handler runs)
\*   with           the workers that were inside a handler when this one began
\*                  (for a create: inside a create) and have not returned since
\*   flushed        a FLUSHALL ran since this request began
Locals(op, id, item, status, with, flushed) ==
    [op |-> op, id |-> id, item |-> item, status |-> status, with |-> with,
     flushed |-> flushed]

NoLocals == Locals("", 0, NoItem, 0, {}, FALSE)

\* Item.redis when no connection is held (None).
NoHandle == "None"

\* The backends init_db can be pointed at: a client passed in, the host the
\* VCAP_SERVICES credentials name, the local server, the host called 'redis'.
ClientBackend == "client"

VcapHost == "vcap"

LocalHost == "127.0.0.1"

RedisHost == "redis"

Backends == {ClientBackend, VcapHost, LocalHost, RedisHost}

\* The connection state:
\*   handle  Item.redis: NoHandle, or the backend the client held talks to
\*   vcap    'VCAP_SERVICES' in os.environ
\*   up      the backends that answer a ping now
\*   pc      the position inside init_db ("idle" outside it)
\*   via     the branch the last call of init_db took
\*   tried   the pings of the last call of init_db, as <<backend, answered>>
\*   exc     the exception the last call of init_db raised
Conn(handle, vcap, up, at, via, tried, exc) ==
    [handle |-> handle, vcap |-> vcap, up |-> up, pc |-> at, via |-> via,
     tried |-> tried, exc |-> exc]

\* The connection the other specifications run with: init_db found the local
\* server.
Connected == Conn(LocalHost, FALSE, {LocalHost}, "idle", "", <<>>, "")

Init ==
    /\ redis = EmptyDb
    /\ last = NoCall
    /\ hist = NoHistory
    /\ pc = [w \in Workers |-> "idle"]
    /\ local = [w \in Workers |-> NoLocals]
    /\ conn = Connected

----------------------------------------------------------------------------
(* Spec: the Item class called directly, one call at a time.               *)

\* item.save()
Save(item) ==
    /\ (item.id = 0 /\ ~SaveRaises(item)) => Index(redis) < MaxIndex
    /\ IF SaveRaises(item)
       THEN /\ last' = Call("save", item, item.id, PyNone,
                            "DataValidationError", FALSE, <<>>, 0)
            /\ UNCHANGED <<redis, hist>>
       ELSE /\ redis' = SaveDb(redis, item)
            /\ last' = Call("save", item, SaveId(redis, item), PyNone, "",
                            FALSE, <<>>, 0)
            /\ hist' = HistSave(hist, redis, item)
    /\ UNCHANGED <<pc, local, conn>>

\* item.delete(); found records whether DEL removed a key.
Delete(id) ==
    /\ redis' = DeleteDb(redis, id)
    /\ last' = Call("delete", NoItem, id, PyNone, "", RedisExists(redis, Key(id)),
                     <<>>, 0)
    /\ hist' = HistDelete(hist, id)
    /\ UNCHANGED <<pc, local, conn>>

\* Item.remove_all()
RemoveAll ==
    /\ redis' = RemoveAllDb(redis)
    /\ last' = Call("remove_all", NoItem, 0, PyNone, "", FALSE, <<>>, 0)
    /\ hist' = HistRemoveAll(hist)
    /\ UNCHANGED <<pc, local, conn>>

\* Item.find(id)
Find(id) ==
    /\ LET got == find(redis, id)
       IN  last' = Call("find", NoItem, id, PyNone, got.exc, got.found,
                        IF got.found THEN <<got.item>> ELSE <<>>, 0)
    /\ UNCHANGED <<redis, hist, pc, local, conn>>

\* Item.all()
All ==
    /\ \E order \in KeyOrders(redis) :
          LET got == all(redis, order)
          IN  last' = Call("all", NoItem, 0, PyNone, got.exc, FALSE, got.items, 0)
    /\ UNCHANGED <<redis, hist, pc, local, conn>>

\* Item.find_by_name(value)
FindByName(value) ==
    /\ \E order \in KeyOrders(redis) :
          LET got == find_by(redis, order, "name", value)
          IN  last' = Call("find_by_name", NoItem, 0, value, got.exc, FALSE,
                           got.items, 0)
    /\ UNCHANGED <<redis, hist, pc, local, conn>>

\* Item.find_by_price(value)
FindByPrice(value) ==
    /\ \E order \in KeyOrders(redis) :
          LET got == find_by(redis, order, "price", value)
          IN  last' = Call("find_by_price", NoItem, 0, value, got.exc, FALSE,
                           got.items, 0)
    /\ UNCHANGED <<redis, hist, pc, local, conn>>

\* The ids an in-memory item may carry; 0 is an item not saved yet.
Ids == {0, 1, 2}

\* Inputs of Spec: names unset, empty and set; prices unset and set.
NameValues == {PyNone, PyStr(<<>>), PyStr(<<65>>)}

PriceValues == {PyNone, PyStr(<<65>>)}

AvailableValues == {PyTrue, PyFalse}

Items ==
    {Item(i, n, p, a) : i \in Ids, n \in NameValues, p \in PriceValues,
                        a \in AvailableValues}

Next ==
    \/ \E item \in Items : Save(item)
    \/ \E id \in Ids : Delete(id)
    \/ RemoveAll
    \/ \E id \in Ids : Find(id)
    \/ All

Spec == Init /\ [][Next]_vars

----------------------------------------------------------------------------
(* SpecQuery: the Item class with its finders; texts differ in letter case *)
(* and in being str or unicode.                                            *)

\* "a", "A" and u"A".
QueryNames == {PyStr(<<97>>), PyStr(<<65>>), PyUnicode(<<65>>)}

\* "A", "a" and u"a": every record of SpecQuery passes the schema.
QueryPrices == {PyStr(<<65>>), PyStr(<<97>>), PyUnicode(<<97>>)}

QueryItems == {Item(0, n, p, PyTrue) : n \in QueryNames, p \in QueryPrices}

\* The values searched for: "a", "A", u"A", u"a".
QueryValues == QueryNames \cup {PyUnicode(<<97>>)}

NextQuery ==
    \/ \E item \in QueryItems : Save(item)
    \/ \E id \in Ids : Delete(id)
    \/ RemoveAll
    \/ \E v \in QueryValues : FindByName(v)
    \/ \E v \in QueryValues : FindByPrice(v)

SpecQuery == Init /\ [][NextQuery]_vars

----------------------------------------------------------------------------
(* The REST handlers of app/server.py, each a function of the keyspace and *)
(* of the request: what it answers and the keyspace it leaves.             *)

JsonType == "application/json"

FormType == "application/x-www-form-urlencoded"

\* The status the error handler answers a DataValidationError with.
ValidationStatus == 400

Result(status, msg, id, item, prev, db) ==
    [status |-> status, msg |-> msg, id |-> id, item |-> item, prev |-> prev,
     db |-> db]

\* A check that lets every Content-Type through.
check_content_typeNever(ctype, expected) == 0

\* check_content_type: 0 when the header is the expected one, else the status
\* of the abort; a request without the header fails the lookup itself (400).
check_content_type(ctype, expected) ==
    IF ctype = "" THEN 400
    ELSE IF ctype = expected THEN 0
    ELSE 415

\* request.get_json(): the parsed body of a JSON request, None otherwise.
get_json(ctype, body) == IF ctype = JsonType THEN body ELSE NotADict

\* create_items, lines 121-130: the data taken from the form or from the body.
CreateData(ctype, body) ==
    IF ctype = FormType
    THEN JsonDict([k \in {"name", "price", "available"} |->
                     IF k = "available" THEN PyTrue ELSE body.d[k]])
    ELSE get_json(ctype, body)

\* create_items, line 136: the Location of the response, the URL of get_items
\* for the id the item carries after the save.
location_url(item_id) == <<"/items", Key(item_id)>>

\* POST /items; id is the id the Location header is built from.
create_items(r, ctype, body) ==
    IF ctype = FormType /\ ~({"name", "price"} \subseteq DOMAIN body.d)
    THEN Result(400, "KeyError", 0, NoItem, NoItem, r)
    ELSE LET got == deserialize_body(0, CreateData(ctype, body))
         IN  IF got.exc /= "" \/ SaveRaises(got.item)
             THEN Result(ValidationStatus, "DataValidationError", 0, NoItem, NoItem, r)
             ELSE Result(201, "", SaveId(r, got.item),
                         [got.item EXCEPT !.id = SaveId(r, got.item)], NoItem,
                         SaveDb(r, got.item))

\* An update that writes under the id the stored record carries plus one.
UpdateIdNext(item_id) == item_id + 1

\* update_items, line 158: the id the item is saved under.
UpdateId(item_id) == item_id

\* PUT /items/{id}
update_items(r, item_id, ctype, body) ==
    LET ct == check_content_type(ctype, JsonType)
        f == find(r, item_id)
        got == deserialize_body(f.item.id, get_json(ctype, body))
        item == [got.item EXCEPT !.id = UpdateId(item_id)]
    IN  IF ct /= 0 THEN Result(ct, "Content-Type must be", item_id, NoItem, NoItem, r)
        ELSE IF f.exc /= ""
        THEN Result(ValidationStatus, f.exc, item_id, NoItem, NoItem, r)
        ELSE IF ~f.found
        THEN Result(404, "was not found", item_id, NoItem, NoItem, r)
        ELSE IF got.exc /= "" \/ SaveRaises(item)
        THEN Result(ValidationStatus, "DataValidationError", item_id, NoItem, f.item, r)
        ELSE Result(200, "", item_id, item, f.item, SaveDb(r, item))

\* A DELETE that answers 404 when the id has no record.
delete_itemsStrict(r, item_id) ==
    LET f == find(r, item_id)
    IN  IF f.exc /= ""
        THEN Result(ValidationStatus, f.exc, item_id, NoItem, NoItem, r)
        ELSE IF f.found
        THEN Result(204, "", item_id, NoItem, f.item, DeleteDb(r, f.item.id))
        ELSE Result(404, "was not found", item_id, NoItem, NoItem, r)

\* DELETE /items/{id}
delete_items(r, item_id) ==
    LET f == find(r, item_id)
    IN  IF f.exc /= ""
        THEN Result(ValidationStatus, f.exc, item_id, NoItem, NoItem, r)
        ELSE IF f.found
        THEN Result(204, "", item_id, NoItem, f.item, DeleteDb(r, f.item.id))
        ELSE Result(204, "", item_id, NoItem, NoItem, r)

\* A purchase that never refuses.
PurchaseRefusedNever(item) == FALSE

\* purchase_items, line 188: not item.available.
PurchaseRefused(item) == ~Truthy(item.available)

\* PUT /items/{id}/purchase
purchase_items(r, item_id) ==
    LET f == find(r, item_id)
        item == [f.item EXCEPT !.available = PyFalse]
    IN  IF f.exc /= ""
        THEN Result(ValidationStatus, f.exc, item_id, NoItem, NoItem, r)
        ELSE IF ~f.found
        THEN Result(404, "was not found", item_id, NoItem, NoItem, r)
        ELSE IF PurchaseRefused(f.item)
        THEN Result(400, "is not available", item_id, NoItem, f.item, r)
        ELSE Result(200, "", item_id, item, f.item, SaveDb(r, item))

\* DELETE /items/reset
items_reset(r) == Result(204, "", 0, NoItem, NoItem, RemoveAllDb(r))

\* GET /items/{id}
get_items(r, item_id) ==
    LET f == find(r, item_id)
    IN  IF f.exc /= ""
        THEN Result(ValidationStatus, f.exc, item_id, NoItem, NoItem, r)
        ELSE IF ~f.found
        THEN Result(404, "was not found", item_id, NoItem, NoItem, r)
        ELSE Result(200, "", item_id, f.item, f.item, r)

\* GET /items?price=&name=: the finder the query arguments select.
list_items(r, order, price, name) ==
    IF Truthy(price) THEN find_by(r, order, "price", price)
    ELSE IF Truthy(name) THEN find_by(r, order, "name", name)
    ELSE all(r, order)

----------------------------------------------------------------------------
(* SpecHttp: the REST endpoints, one request at a time.                    *)

Http(op, ctype, body, val, res, items) ==
    [op |-> op, item |-> res.item, id |-> res.id, val |-> val, exc |-> res.msg,
     found |-> FALSE, items |-> items, status |-> res.status,
     ctype |-> ctype, body |-> body, prev |-> res.prev]

\* The history after a request stored item (by a PUT /items/{id} or not).
HistStored(h, r, item, byPut) ==
    LET h1 == HistSave(h, r, item)
        id == SaveId(r, item)
    IN  [h1 EXCEPT !.sold = IF ~Truthy(item.available) THEN @ \cup {id}
                            ELSE IF byPut THEN @ \ {id}
                            ELSE @]

Post(ctype, body) ==
    \E res \in {create_items(redis, ctype, body)} :
        /\ res.status = 201 => Index(redis) < MaxIndex
        /\ redis' = res.db
        /\ last' = Http("POST", ctype, body, PyNone, res, <<>>)
        /\ hist' = IF res.status = 201
                   THEN HistStored(hist, redis, [res.item EXCEPT !.id = 0], FALSE)
                   ELSE hist
        /\ UNCHANGED <<pc, local, conn>>

Put(item_id, ctype, body) ==
    \E res \in {update_items(redis, item_id, ctype, body)} :
        /\ redis' = res.db
        /\ last' = Http("PUT", ctype, body, PyNone, res, <<>>)
        /\ hist' = IF res.status = 200
                   THEN HistStored(hist, redis, res.item, TRUE)
                   ELSE hist
        /\ UNCHANGED <<pc, local, conn>>

DeleteItem(item_id) ==
    \E res \in {delete_items(redis, item_id)} :
        /\ redis' = res.db
        /\ last' = Http("DELETE", "", NotADict, PyNone, res, <<>>)
        /\ hist' = IF res.db /= redis THEN HistDelete(hist, res.prev.id) ELSE hist
        /\ UNCHANGED <<pc, local, conn>>

\* The handler reads neither the Content-Type nor a body.
Purchase(item_id, ctype) ==
    \E res \in {purchase_items(redis, item_id)} :
        /\ redis' = res.db
        /\ last' = Http("purchase", ctype, NotADict, PyNone, res, <<>>)
        /\ hist' = IF res.status = 200
                   THEN HistStored(hist, redis, res.item, FALSE)
                   ELSE hist
        /\ UNCHANGED <<pc, local, conn>>

Reset ==
    \E res \in {items_reset(redis)} :
        /\ redis' = res.db
        /\ last' = Http("reset", "", NotADict, PyNone, res, <<>>)
        /\ hist' = HistRemoveAll(hist)
        /\ UNCHANGED <<pc, local, conn>>

Get(item_id) ==
    \E res \in {get_items(redis, item_id)} :
        /\ last' = Http("GET", "", NotADict, PyNone, res, <<>>)
        /\ UNCHANGED <<redis, hist, pc, local, conn>>

List(price, name) ==
    /\ \E order \in KeyOrders(redis) :
          \E got \in {list_items(redis, order, price, name)} :
              LET res == Result(IF got.exc = "" THEN 200 ELSE ValidationStatus,
                                got.exc, 0, NoItem, NoItem, redis)
              IN  last' = Http("list", "", NotADict,
                               IF Truthy(price) THEN price ELSE name, res, got.items)
    /\ UNCHANGED <<redis, hist, pc, local, conn>>

\* The ids a URL may name: 0 (never stored) and the ids of Spec.
HttpIds == Ids


\* JSON strings: u"A" and u"a".
HttpNames == {PyUnicode(<<65>>), PyUnicode(<<97>>)}

HttpPrice == PyUnicode(<<65>>)

\* Bodies: complete objects, an object without a name, one whose available
\* is a string, and a body that is no object.
Bodies ==
    {JsonDict([name |-> n, price |-> HttpPrice, available |-> a]) :
        n \in HttpNames, a \in AvailableValues}
    \cup {JsonDict([price |-> HttpPrice]),
          JsonDict([name |-> PyUnicode(<<65>>), price |-> HttpPrice]),
          JsonDict([name |-> PyUnicode(<<65>>), price |-> HttpPrice,
                    available |-> PyUnicode(<<65>>)]),
          NotADict}

\* A form submission: its fields are the form's name and price.
FormBody == JsonDict([name |-> PyUnicode(<<97>>), price |-> HttpPrice])

\* Requests with a body, as (Content-Type, body): every body sent as JSON, a
\* form, and a body sent with another Content-Type or with none.
Requests ==
    {<<JsonType, b>> : b \in Bodies}
    \cup {<<FormType, FormBody>>, <<FormType, JsonDict([price |-> HttpPrice])>>}
    \cup {<<c, JsonDict([name |-> PyUnicode(<<65>>), price |-> HttpPrice,
                         available |-> PyTrue])>> : c \in {"text/plain", ""}}

\* The Content-Type a purchase request (it has no body) is sent with.
PurchaseTypes == {JsonType, "text/plain"}

\* The query arguments of GET /items: (price, name).
Queries == {<<PyNone, PyNone>>, <<PyUnicode(<<65>>), PyNone>>,
            <<PyNone, PyUnicode(<<97>>)>>}

NextHttp ==
    \/ \E q \in Requests : Post(q[1], q[2])
    \/ \E id \in HttpIds, q \in Requests : Put(id, q[1], q[2])
    \/ \E id \in HttpIds : DeleteItem(id)
    \/ \E id \in HttpIds, c \in PurchaseTypes : Purchase(id, c)
    \/ Reset
    \/ \E id \in HttpIds : Get(id)
    \/ \E q \in Queries : List(q[1], q[2])

SpecHttp == Init /\ [][NextHttp]_vars

----------------------------------------------------------------------------
(* SpecConc: requests of several workers, interleaved between their Redis  *)
(* commands.  A worker that answered stays at "done" until it returns.     *)

Goto(w, label, l) ==
    /\ pc' = [pc EXCEPT ![w] = label]
    /\ local' = [local EXCEPT ![w] = l]

\* POST /items: Item.save, line 66, the INCR of the counter.
CreateIncr(w, item) ==
    /\ pc[w] = "idle"
    /\ Index(redis) < MaxIndex
    /\ redis' = RedisIncr(redis, "index")
    /\ Goto(w, "create_set",
            Locals("POST", next_index(redis), [item EXCEPT !.id = next_index(redis)],
                   0, {v \in Workers : pc[v] = "create_set"}, FALSE))
    /\ UNCHANGED <<last, hist, conn>>

\* POST /items: Item.save, line 67, the SET of the record.
CreateSet(w) ==
    /\ pc[w] = "create_set"
    /\ redis' = RedisSet(redis, Key(local[w].id), pickle_dumps(serialize(local[w].item)))
    /\ Goto(w, "done", [local[w] EXCEPT !.status = 201])
    /\ UNCHANGED <<last, hist, conn>>

\* The workers inside a handler: they began a request and have not answered.
Running == {v \in Workers : pc[v] \notin {"idle", "done"}}

\* Item.find, line 130, the EXISTS that opens PUT, DELETE and purchase.
FindExists(w, op, item_id, item) ==
    /\ pc[w] = "idle"
    /\ IF RedisExists(redis, Key(item_id))
       THEN Goto(w, "get", Locals(op, item_id, item, 0, Running, FALSE))
       ELSE Goto(w, "done", Locals(op, item_id, item,
                                   IF op = "DELETE" THEN 204 ELSE 404, Running, FALSE))
    /\ UNCHANGED <<redis, last, hist, conn>>

\* Item.find, lines 131-132, the GET of the record and what the handler does
\* with the item before its next Redis command.  A key deleted since the
\* EXISTS makes GET return None, which pickle.loads rejects (status 500).
FindGet(w) ==
    /\ pc[w] = "get"
    /\ LET l == local[w]
           got == Load(redis, Key(l.id))
       IN  IF ~RedisExists(redis, Key(l.id)) \/ got.exc /= ""
           THEN Goto(w, "done", [l EXCEPT !.status = 500])
           ELSE CASE l.op = "PUT" ->
                       Goto(w, "put_set", [l EXCEPT !.item.id = UpdateId(l.id)])
                  [] l.op = "DELETE" ->
                       Goto(w, "delete_del", [l EXCEPT !.item = got.item])
                  [] OTHER ->
                       IF PurchaseRefused(got.item)
                       THEN Goto(w, "done", [l EXCEPT !.item = got.item, !.status = 400])
                       ELSE Goto(w, "purchase_set",
                                 [l EXCEPT !.item = [got.item EXCEPT !.available = PyFalse]])
    /\ UNCHANGED <<redis, last, hist, conn>>

\* PUT /items/{id} and purchase: Item.save, line 67, of an item with an id.
SaveSet(w) ==
    /\ pc[w] \in {"put_set", "purchase_set"}
    /\ redis' = SaveDb(redis, local[w].item)
    /\ Goto(w, "done", [local[w] EXCEPT !.status = 200])
    /\ UNCHANGED <<last, hist, conn>>

\* DELETE /items/{id}: Item.delete, the DEL.
DeleteDel(w) ==
    /\ pc[w] = "delete_del"
    /\ redis' = DeleteDb(redis, local[w].item.id)
    /\ Goto(w, "done", [local[w] EXCEPT !.status = 204])
    /\ UNCHANGED <<last, hist, conn>>

\* DELETE /items/reset: Item.remove_all, the FLUSHALL.
ResetFlush(w) ==
    /\ pc[w] = "idle"
    /\ redis' = RemoveAllDb(redis)
    /\ pc' = [pc EXCEPT ![w] = "done"]
    /\ local' = [v \in Workers |->
                   IF v = w THEN Locals("reset", 0, NoItem, 204, {}, TRUE)
                   ELSE [local[v] EXCEPT !.flushed = TRUE]]
    /\ UNCHANGED <<last, hist, conn>>

\* The response is sent; the worker takes the next request.
Return(w) ==
    /\ pc[w] = "done"
    /\ pc' = [pc EXCEPT ![w] = "idle"]
    /\ local' = [v \in Workers |->
                   IF v = w THEN NoLocals
                   ELSE [local[v] EXCEPT !.with = @ \ {w}]]
    /\ UNCHANGED <<redis, last, hist, conn>>

\* The items the concurrent requests carry (validated JSON bodies): one
\* available, one not, under different names.
ConcItems ==
    {Item(0, PyUnicode(<<65>>), HttpPrice, PyTrue),
     Item(0, PyUnicode(<<97>>), HttpPrice, PyFalse)}

ConcIds == {1, 2}

NextConc ==
    \E w \in Workers :
        \/ \E item \in ConcItems : CreateIncr(w, item)
        \/ CreateSet(w)
        \/ \E id \in ConcIds, item \in ConcItems : FindExists(w, "PUT", id, item)
        \/ \E id \in ConcIds : FindExists(w, "DELETE", id, NoItem)
        \/ \E id \in ConcIds : FindExists(w, "purchase", id, NoItem)
        \/ FindGet(w)
        \/ SaveSet(w)
        \/ DeleteDel(w)
        \/ ResetFlush(w)
        \/ Return(w)

SpecConc == Init /\ [][NextConc]_vars

----------------------------------------------------------------------------
(* SpecInit: Item.init_db.  Backends come up and go down at any moment,    *)
(* also between two pings of one call.                                     *)

\* A connect that keeps the client when the ping fails.
connect_to_redisKeep(c, hostname) ==
    [c EXCEPT !.handle = hostname,
              !.tried = Append(@, <<hostname, hostname \in c.up>>)]

\* Item.connect_to_redis: a client for the host, dropped (None) when the ping
\* raises ConnectionError.
connect_to_redis(c, hostname) ==
    [c EXCEPT !.handle = IF hostname \in c.up THEN hostname ELSE NoHandle,
              !.tried = Append(@, <<hostname, hostname \in c.up>>)]

\* The state a call of init_db starts from.
Begin(c, via) == [c EXCEPT !.via = via, !.tried = <<>>, !.exc = ""]

\* init_db(redis), lines 205-215: the client passed in is kept if it answers
\* the ping; if not, Item.redis is set to None and ConnectionError is raised.
InitDbClient ==
    /\ conn.pc = "idle"
    /\ LET c == Begin(conn, "client")
           ok == ClientBackend \in c.up
       IN  conn' = [c EXCEPT !.handle = IF ok THEN ClientBackend ELSE NoHandle,
                             !.tried = <<<<ClientBackend, ok>>>>,
                             !.exc = IF ok THEN "" ELSE "ConnectionError"]
    /\ UNCHANGED <<redis, last, hist, pc, local>>

\* init_db(), lines 217-224: VCAP_SERVICES is set, its host is tried.
InitDbVcap ==
    /\ conn.pc = "idle"
    /\ conn.vcap
    /\ conn' = [connect_to_redis(Begin(conn, "vcap"), VcapHost) EXCEPT !.pc = "check"]
    /\ UNCHANGED <<redis, last, hist, pc, local>>

\* init_db(), lines 225-227: no VCAP_SERVICES, the local server is tried.
InitDbLocalhost ==
    /\ conn.pc = "idle"
    /\ ~conn.vcap
    /\ conn' = [connect_to_redis(Begin(conn, "default"), LocalHost)
                  EXCEPT !.pc = "localhost"]
    /\ UNCHANGED <<redis, last, hist, pc, local>>

\* init_db(), lines 228-230: if the local server gave no connection, the host
\* called 'redis' is tried.
InitDbRedisHost ==
    /\ conn.pc = "localhost"
    /\ conn' = [(IF conn.handle = NoHandle THEN connect_to_redis(conn, RedisHost)
                 ELSE conn) EXCEPT !.pc = "check"]
    /\ UNCHANGED <<redis, last, hist, pc, local>>

\* init_db(), lines 231-234: with no connection, ConnectionError is raised.
InitDbCheck ==
    /\ conn.pc = "check"
    /\ conn' = [conn EXCEPT !.pc = "idle",
                            !.exc = IF conn.handle = NoHandle THEN "ConnectionError"
                                    ELSE ""]
    /\ UNCHANGED <<redis, last, hist, pc, local>>

\* A backend comes up or goes down.
BackendFlips(b) ==
    /\ conn' = [conn EXCEPT !.up = IF b \in @ THEN @ \ {b} ELSE @ \cup {b}]
    /\ UNCHANGED <<redis, last, hist, pc, local>>

\* VCAP_SERVICES is set or unset, between two calls of init_db.
SetEnv(v) ==
    /\ conn.pc = "idle"
    /\ conn.vcap /= v
    /\ conn' = [conn EXCEPT !.vcap = v]
    /\ UNCHANGED <<redis, last, hist, pc, local>>

\* Before init_db: Item.redis is None (the class attribute), the environment
\* and the backends are in any state.
InitBoot ==
    /\ redis = EmptyDb
    /\ last = NoCall
    /\ hist = NoHistory
    /\ pc = [w \in Workers |-> "idle"]
    /\ local = [w \in Workers |-> NoLocals]
    /\ \E v \in BOOLEAN, up \in SUBSET Backends :
          conn = Conn(NoHandle, v, up, "idle", "", <<>>, "")

NextInit ==
    \/ InitDbClient
    \/ InitDbVcap
    \/ InitDbLocalhost
    \/ InitDbRedisHost
    \/ InitDbCheck
    \/ \E b \in Backends : BackendFlips(b)
    \/ \E v \in BOOLEAN : SetEnv(v)

SpecInit == InitBoot /\ [][NextInit]_vars

----------------------------------------------------------------------------
(* Properties of Spec.                                                     *)

\* The dictionary stored under an id.
Stored(r, id) == pickle_loads(RedisGet(r, Key(id)))

\* The keyspace r with the record of id replaced by the dictionary d.
WithRecord(r, id, d) == RedisSet(r, Key(id), pickle_dumps(d))

\* The set of the entries of a sequence.
Range(seq) == {seq[i] : i \in DOMAIN seq}

\* A name that is unset (None) or the empty string.
NameUnsetOrEmpty(item) == item.name = PyNone \/ (IsBaseString(item.name) /\ item.name.s = <<>>)

\* C1 as claimed: a save of an item whose name is unset or empty raises
\* DataValidationError and leaves the keyspace as it was.
C1_EmptyOrUnsetNameFails ==
    [][(last'.op = "save" /\ NameUnsetOrEmpty(last'.item))
          => (last'.exc = "DataValidationError" /\ redis' = redis)]_vars

\* C1 as amended: a save of an item whose name is unset (None) raises
\* DataValidationError, whatever its id, price and available, and leaves the
\* keyspace (records and counter) as it was; a save of an item whose name is
\* the empty string raises nothing and stores the record.
C1_UnsetNameFails ==
    [][/\ (last'.op = "save" /\ last'.item.name = PyNone)
          => (last'.exc = "DataValidationError" /\ redis' = redis)
       /\ (last'.op = "save" /\ last'.item.name = PyStr(<<>>))
          => /\ last'.exc = ""
             /\ RedisExists(redis', Key(last'.id))
             /\ Stored(redis', last'.id)["name"] = PyStr(<<>>)]_vars

\* C1 witness: a save of an item with a non-zero id and no name was refused
\* while a record was stored under that id.
C1_Witness ==
    /\ last.op = "save"
    /\ last.item.name = PyNone
    /\ last.item.id /= 0
    /\ last.exc = "DataValidationError"
    /\ RedisExists(redis, Key(last.item.id))

\* C2 as claimed: find of the id of a saved item returns an item with the id,
\* name, price and available that were saved.
C2_FindReturnsSaved ==
    (last.op = "find" /\ last.id \in DOMAIN hist.saved)
        => (last.exc = "" /\ last.found /\ last.items = <<hist.saved[last.id]>>)

\* C3 as claimed: every id the counter hands out is greater than every id it
\* handed out before, over saves, deletes and remove_all.
C3_IdsIncreaseForEver ==
    [][(last'.op = "save" /\ last'.exc = "" /\ last'.item.id = 0)
          => last'.id > hist.ever]_vars

\* C3 as amended: every id the counter hands out is greater than every id it
\* handed out since the last remove_all (remove_all drops the counter, and
\* numbering starts again at 1).
C3_IdsIncreaseSinceRemoveAll ==
    [][(last'.op = "save" /\ last'.exc = "" /\ last'.item.id = 0)
          => (last'.id > hist.cur /\ last'.id > 0)]_vars

\* C3 witness: a second id was handed out, greater than the first, whose
\* record is no longer stored.
C3_Witness ==
    /\ last.op = "save"
    /\ last.item.id = 0
    /\ last.exc = ""
    /\ last.id = 2
    /\ hist.ever = 2
    /\ Cardinality(RecordKeys(redis)) = 1

\* C5: after delete of an item whose record is stored, find of its id gives
\* None, no listing by all() holds it, there is exactly one record less and
\* every other key holds what it held.
C5_DeleteRemovesOne ==
    [][(last'.op = "delete" /\ RedisExists(redis, Key(last'.id)))
          => /\ find(redis', last'.id) = [exc |-> "", found |-> FALSE, item |-> NoItem]
             /\ \A order \in KeyOrders(redis') :
                   \A it \in Range(all(redis', order).items) : it.id /= last'.id
             /\ Key(last'.id) \notin RecordKeys(redis')
             /\ Cardinality(RecordKeys(redis')) = Cardinality(RecordKeys(redis)) - 1
             /\ \A k \in DOMAIN redis \ {Key(last'.id)} :
                   k \in DOMAIN redis' /\ redis'[k] = redis[k]]_vars

\* C5 witness: a stored record was deleted and another record is still there.
C5_Witness ==
    /\ last.op = "delete"
    /\ last.found
    /\ RecordKeys(redis) /= {}

\* C9 as claimed: all() returns one item per record, each item as saved and
\* not since deleted, each once, and nothing for the counter.
C9_AllReturnsRecords ==
    last.op = "all"
        => /\ last.exc = ""
           /\ Len(last.items) = Cardinality(DOMAIN hist.saved)
           /\ Range(last.items) = {hist.saved[id] : id \in DOMAIN hist.saved}

\* C10: right after remove_all, all() is empty, find gives None for every id,
\* the counter key is gone and the next create is given id 1.
C10_RemoveAllClears ==
    last.op = "remove_all"
        => /\ \A order \in KeyOrders(redis) :
                 all(redis, order) = [exc |-> "", items |-> <<>>]
           /\ \A id \in 0..(MaxIndex + 1) :
                 find(redis, id) = [exc |-> "", found |-> FALSE, item |-> NoItem]
           /\ ~RedisExists(redis, "index")
           /\ \A item \in Items : item.id = 0 => SaveId(redis, item) = 1

\* C10 witness: remove_all ran after ids had been handed out.
C10_Witness ==
    /\ last.op = "remove_all"
    /\ hist.ever = MaxIndex

\* What a save that did not raise leaves, apart from the number of records:
\* an item with a non-zero id is written under that id, the counter key and
\* every other key as they were; an item with id 0 is given the id the
\* counter advanced to, which is greater than 0.
SaveFrame(r, r2, call) ==
    IF call.item.id /= 0
    THEN /\ call.id = call.item.id
         /\ RedisExists(r2, Key(call.id))
         /\ Stored(r2, call.id) = serialize(call.item)
         /\ RedisExists(r2, "index") = RedisExists(r, "index")
         /\ Index(r2) = Index(r)
         /\ \A k \in DOMAIN r \ {Key(call.id)} : k \in DOMAIN r2 /\ r2[k] = r[k]
         /\ DOMAIN r2 \subseteq DOMAIN r \cup {Key(call.id)}
    ELSE /\ call.id > 0
         /\ call.id = Index(r2)
         /\ Index(r2) = Index(r) + 1

\* C11 as claimed: a save of an item whose id is non-zero writes the record
\* under that id, leaves the item's id, the counter and every other record as
\* they were, and does not make the number of records grow; a save of an item
\* with id 0 assigns an id greater than 0.
C11_UpdateNeverAdds ==
    [][(last'.op = "save" /\ last'.exc = "")
          => /\ SaveFrame(redis, redis', last')
             /\ last'.item.id /= 0
                   => Cardinality(RecordKeys(redis')) <= Cardinality(RecordKeys(redis))]_vars

\* C11 as amended: as claimed, except that the number of records stays the
\* same only when a record is stored under the item's id; when none is (the
\* item was built with that id, or its record was deleted), the save adds the
\* record under that id, one record more, the counter still as it was.
C11_UpdateAddsOnlyIfAbsent ==
    [][(last'.op = "save" /\ last'.exc = "")
          => /\ SaveFrame(redis, redis', last')
             /\ last'.item.id /= 0
                   => Cardinality(RecordKeys(redis')) =
                         Cardinality(RecordKeys(redis))
                           + (IF RedisExists(redis, Key(last'.item.id)) THEN 0 ELSE 1)]_vars

\* C11 witness: an item with the first id was saved again, with another
\* record beside it and the counter at 2.
C11_Witness ==
    /\ last.op = "save"
    /\ last.exc = ""
    /\ last.item.id = 1
    /\ last.id = 1
    /\ Index(redis) = 2
    /\ RecordKeys(redis) = {Key(1), Key(2)}
    /\ Stored(redis, 1) = serialize(last.item)
    /\ 1 \in DOMAIN hist.saved

----------------------------------------------------------------------------
(* Properties of SpecQuery.                                                *)

\* A value with its letters lowered, whatever its type.
CaseFold(v) == IF IsBaseString(v) THEN Lower(v) ELSE v

\* The saved items whose attribute equals value when both are lowered.
Matching(attribute, value) ==
    {hist.saved[id] : id \in
        {i \in DOMAIN hist.saved :
            PyEq(CaseFold(hist.saved[i][attribute]), CaseFold(value))}}

\* C8 as claimed: find_by_name and find_by_price return exactly the stored
\* items whose name (price) equals the value searched for when both are
\* compared in lower case, each once.
C8_FindByIgnoresCase ==
    /\ last.op = "find_by_name"
          => /\ last.exc = ""
             /\ Range(last.items) = Matching("name", last.val)
             /\ Len(last.items) = Cardinality(Matching("name", last.val))
    /\ last.op = "find_by_price"
          => /\ last.exc = ""
             /\ Range(last.items) = Matching("price", last.val)
             /\ Len(last.items) = Cardinality(Matching("price", last.val))

----------------------------------------------------------------------------
(* Properties of SpecHttp.                                                 *)

\* C6: PUT /items/{id}/purchase on a stored item that is available answers
\* 200 and stores the same record with available = false, every other key as
\* it was; on a stored item that is not available it answers 400 with the
\* message "... is not available" and leaves the keyspace as it was.
C6_PurchaseOnceOnly ==
    [][(last'.op = "purchase" /\ RedisExists(redis, Key(last'.id)))
          => IF Stored(redis, last'.id)["available"] = PyTrue
             THEN /\ last'.status = 200
                  /\ last'.item.available = PyFalse
                  /\ redis' = WithRecord(redis, last'.id,
                                [Stored(redis, last'.id) EXCEPT !["available"] = PyFalse])
             ELSE /\ last'.status = 400
                  /\ last'.exc = "is not available"
                  /\ redis' = redis]_vars

\* C6 witness: a purchase of an item that was already sold was refused, with
\* a second record in the store.
C6_Witness ==
    /\ last.op = "purchase"
    /\ last.status = 400
    /\ last.prev.available = PyFalse
    /\ last.id \in hist.sold
    /\ Cardinality(RecordKeys(redis)) = 2

\* An id has a record whose available flag is a.
StoredAs(r, id, a) == RedisExists(r, Key(id)) /\ Stored(r, id)["available"] = a

\* C7 as claimed: an id that was stored as unavailable is not stored as
\* available unless a PUT /items/{id} rewrote it since.
C7_SoldStaysSold == \A id \in hist.sold : ~StoredAs(redis, id, PyTrue)

\* C7 as amended: a record stored as unavailable becomes a record stored as
\* available only by a PUT /items/{id} on that id answered 200; purchase,
\* create, delete, reset and the reads never turn the flag of a stored record
\* back.  (After a reset the counter starts again, so a create can store a
\* new, available item under the id of a removed one.)
C7_OnlyPutRestocks ==
    [][\A id \in 0..(MaxIndex + 1) :
          (StoredAs(redis, id, PyFalse) /\ StoredAs(redis', id, PyTrue))
              => (last'.op = "PUT" /\ last'.id = id /\ last'.status = 200)]_vars

\* C7 witness: a PUT made a sold item available again.
C7_Witness ==
    /\ last.op = "PUT"
    /\ last.status = 200
    /\ last.prev.available = PyFalse
    /\ last.item.available = PyTrue
    /\ StoredAs(redis, last.id, PyTrue)

\* A parsed JSON body that fails validation: not an object, or name, price
\* or available missing or of the wrong type.
BodyFails(body) ==
    \/ ~body.isdict
    \/ \E k \in {"name", "price", "available"} : k \notin DOMAIN body.d
    \/ body.d["name"].t \notin {"str", "unicode"}
    \/ body.d["price"].t \notin {"str", "unicode"}
    \/ body.d["available"].t /= "bool"

OnAbsentId(r, call) ==
    /\ call.op \in {"GET", "PUT", "purchase"}
    /\ ~RedisExists(r, Key(call.id))

C14_CreateAnswers201 ==
    [][(last'.op = "POST" /\ last'.ctype = JsonType /\ ~BodyFails(last'.body))
          => /\ last'.status = 201
             /\ last'.id = Index(redis) + 1
             /\ ~RedisExists(redis, Key(last'.id))
             /\ location_url(last'.id) = <<"/items", ToString(Index(redis'))>>
             /\ last'.item = Item(last'.id, last'.body.d["name"],
                                  last'.body.d["price"], last'.body.d["available"])
             /\ RedisExists(redis', Key(last'.id))
             /\ Stored(redis', last'.id) = serialize(last'.item)
             /\ \E got \in {get_items(redis', last'.id)} :
                   /\ got.status = 200
                   /\ serialize(got.item) = serialize(last'.item)
             /\ \A after \in KeyOrders(redis') :
                   \E now \in {all(redis', after)} :
                      /\ now.exc = ""
                      /\ last'.item \in Range(now.items)
                      /\ \A before \in KeyOrders(redis) :
                            \E was \in {all(redis, before)} :
                               /\ was.exc = ""
                               /\ Len(now.items) = Len(was.items) + 1
                               /\ Range(was.items) \subseteq Range(now.items)]_vars

\* C14 witness: a second item was created beside the first and answered 201
\* with id 2.
C14_Witness ==
    /\ last.op = "POST"
    /\ last.ctype = JsonType
    /\ last.status = 201
    /\ last.id = 2
    /\ last.item.id = 2
    /\ RecordKeys(redis) = {Key(1), Key(2)}
    /\ Stored(redis, 2) = serialize(last.item)

\* A request to POST /items, PUT /items/{id} or PUT /items/{id}/purchase.
Mutating(call) == call.op \in {"POST", "PUT", "purchase"}

C16_DeleteIsIdempotent ==
    [][last'.op = "DELETE"
          => /\ last'.status = 204
             /\ last'.exc = ""
             /\ last'.item = NoItem
             /\ ~RedisExists(redis, Key(last'.id)) => redis' = redis
             /\ ~RedisExists(redis', Key(last'.id))
             /\ delete_items(redis', last'.id).status = 204
             /\ delete_items(redis', last'.id).db = redis']_vars

\* C16 witness: a DELETE of an id that was handed out and whose record is
\* gone found nothing to delete and answered 204, another record still stored.
C16_Witness ==
    /\ last.op = "DELETE"
    /\ last.status = 204
    /\ last.prev = NoItem
    /\ last.id = 1
    /\ Index(redis) = 2
    /\ RecordKeys(redis) = {Key(2)}

----------------------------------------------------------------------------
(* Properties of SpecConc.                                                 *)

\* Worker w answered 201 to a create, with no FLUSHALL since it began.
Created(w) ==
    /\ pc[w] = "done"
    /\ local[w].op = "POST"
    /\ local[w].status = 201
    /\ ~local[w].flushed

\* C4: two creates that ran concurrently, with no remove_all since either
\* began, were given different ids, and once both have answered each one's
\* record is in the store as that create wrote it.
C4_ConcurrentCreatesDiffer ==
    \A w, v \in Workers :
        (w /= v /\ Created(w) /\ Created(v) /\ v \in local[w].with)
            => /\ local[w].id /= local[v].id
               /\ \A u \in {w, v} :
                     /\ RedisExists(redis, Key(local[u].id))
                     /\ Stored(redis, local[u].id) = serialize(local[u].item)

\* C4 witness: two creates with different bodies overlapped and both have
\* answered; the one that began later holds the greater id.
C4_Witness ==
    \E w, v \in Workers :
        /\ w /= v
        /\ Created(v)
        /\ v \in local[w].with
        /\ Created(w)
        /\ local[w].id > local[v].id
        /\ local[w].item.name /= local[v].item.name

\* Workers w and v both answered a purchase of the same id, v's request
\* having begun before w's and still running when w's began.
PurchasedTogether(w, v) ==
    /\ w /= v
    /\ pc[w] = "done" /\ local[w].op = "purchase"
    /\ pc[v] = "done" /\ local[v].op = "purchase"
    /\ local[w].id = local[v].id
    /\ v \in local[w].with

\* C18 as claimed: of two purchases of the same available item that ran
\* concurrently, at most one answers 200, and then the other answers 400.
C18_OnePurchaseWins ==
    \A w, v \in Workers :
        PurchasedTogether(w, v)
            => /\ ~(local[w].status = 200 /\ local[v].status = 200)
               /\ local[w].status = 200 => local[v].status = 400
               /\ local[v].status = 200 => local[w].status = 400

\* C19 as claimed: at the moment a PUT /items/{id} writes, a record with
\* that id is in the store, whatever DELETE /items/{id} or DELETE
\* /items/reset ran since the PUT looked the id up: the PUT adds no record.
C19_PutNeverAdds ==
    [][\A w \in Workers :
          (pc[w] = "put_set" /\ pc'[w] = "done")
              => /\ RedisExists(redis, Key(local[w].id))
                 /\ RecordKeys(redis') = RecordKeys(redis)]_vars

\* Every id that has a record is at most the counter.
IdsWithinCounter(r) ==
    \A id \in 0..(MaxIndex + 1) : RedisExists(r, Key(id)) => id <= Index(r)

\* C20 as claimed: in every interleaving of POST, PUT, purchase, DELETE and
\* reset requests, the id a create writes under holds no record at the moment
\* of the write, and after every step every stored record's id is at most
\* the counter.
C20_CreateNeverOverwrites ==
    [][/\ \A w \in Workers :
             (pc[w] = "create_set" /\ pc'[w] = "done")
                 => ~RedisExists(redis, Key(local[w].id))
       /\ IdsWithinCounter(redis')]_vars

----------------------------------------------------------------------------
(* Properties of SpecInit.                                                 *)

\* A call of init_db has returned or raised.
InitDbOver == conn.pc = "idle" /\ conn.tried /= <<>>

\* The pings of the last call that were answered.
Answered == {i \in DOMAIN conn.tried : conn.tried[i][2]}

\* C17: a call of init_db without a client and without VCAP_SERVICES pings
\* the local server first and the host 'redis' second, the second only if
\* the first did not answer, and keeps the first that answered; and whatever
\* the branch (default, VCAP_SERVICES, client passed in), a call none of
\* whose pings was answered raises ConnectionError and leaves Item.redis
\* None, while a call with an answered ping raises nothing.
C17_InitDbPicksFirstThatAnswers ==
    InitDbOver
        => /\ conn.via = "default"
                 => /\ conn.tried[1][1] = LocalHost
                    /\ Len(conn.tried) = (IF conn.tried[1][2] THEN 1 ELSE 2)
                    /\ Len(conn.tried) = 2 => conn.tried[2][1] = RedisHost
           /\ conn.via = "vcap" => (Len(conn.tried) = 1 /\ conn.tried[1][1] = VcapHost)
           /\ conn.via = "client" => (Len(conn.tried) = 1 /\ conn.tried[1][1] = ClientBackend)
           /\ IF Answered = {}
              THEN conn.exc = "ConnectionError" /\ conn.handle = NoHandle
              ELSE /\ conn.exc = ""
                   /\ \A i \in Answered :
                         conn.handle = conn.tried[i][1] /\ i = Len(conn.tried)

\* C17 witness: a call without client and without VCAP_SERVICES found neither
\* the local server nor 'redis', raised ConnectionError and left no
\* connection, while the other two backends were up.
C17_Witness ==
    /\ InitDbOver
    /\ conn.via = "default"
    /\ conn.tried = <<<<LocalHost, FALSE>>, <<RedisHost, FALSE>>>>
    /\ conn.exc = "ConnectionError"
    /\ conn.handle = NoHandle
    /\ conn.up = {ClientBackend, VcapHost}

=============================================================================
